---- MODULE Spec2Model ----
(***************************************************************************)
(* The RTSP-to-WebRTC bridge of src/stream/rtsp_mqtt.py as a state machine. *)
(*                                                                         *)
(* All coroutines run on one asyncio loop: a task runs without interruption *)
(* from one await that really suspends to the next.  An action of this      *)
(* module is therefore one such run of one task: Run executes the task's    *)
(* synchronous steps (Exec) until the task reaches a label at which the     *)
(* code awaits.  asyncio.Lock is FIFO: release hands the lock to the first  *)
(* waiter, and an acquire of a free lock does not suspend.                  *)
(*                                                                         *)
(* The state the steps work on is gathered in one record (World) so that    *)
(* the steps compose as functions; Apply writes the record back to the      *)
(* variables.                                                               *)
(***************************************************************************)
EXTENDS Integers, Sequences, FiniteSets, TLC

\* ---------------------------------------------------------------- bounds
NumCallers == 2
MaxCalls == 4
MaxWatchdogs == 2
MaxFail == 1
MaxRestarts == 1
MaxOffers == 2
NumViewers == 1
MaxIce == 2
MaxConnects == 2
MaxStatus == 2
MaxServers == 2
NumReaders == 2
MaxFrames == 2
NumWrappers == 2
MaxPulled == 3

\* ------------------------------------------------------------- constants
\* "time.time() - self._last_frame_time > self.reconnect_interval * 3"
StallFactor == 3
\* Optional[...] = None
None == 0

VARIABLES
  cam,      \* the SharedRTSPPlayer object (MQTTPublisher.camera)
  task,     \* every asyncio task: where it is suspended, what it is running
  sess,     \* every PeerContext with its RTCPeerConnection
  peers,    \* MQTTPublisher.peers: viewer-id -> PeerContext
  cleanup,  \* MQTTPublisher._cleanup_lock
  connected,\* MQTTPublisher._connected
  nice,     \* ICE candidates received so far (a candidate's number is its identity)
  hist,     \* history: pullers created, creations failed, watchdog restarts
  calls,    \* history: the shared source's public calls, in the order they took the lock
  app,      \* run_app and the status heartbeat: exit_event, _closed, _status_task, ...
  wrap      \* a NonBufferedVideoTrack, its upstream track and the callers of its recv

vars == <<cam, task, sess, peers, cleanup, connected, nice, hist, calls, app, wrap>>

Max(a, b) == IF a >= b THEN a ELSE b

\* ----------------------------------------------------------------- tasks
Callers == {<<"u", i>> : i \in 1..NumCallers}
Watchdogs == {<<"w", k>> : k \in 1..MaxWatchdogs}
Viewers == 1..NumViewers
Sessions == 1..MaxOffers
\* The task of handle_remote_offer for the i-th offer; it creates session i.
Handlers == {<<"h", i>> : i \in Sessions}
\* The task a connectionstatechange callback creates to tear down session i.
Cleaners == {<<"c", i>> : i \in Sessions}
\* The task of run_app.
Main == <<"m", 1>>
\* The task of _start_status_task for the k-th successful connect, and the
\* task of _publish_status_periodically it creates.
Starters == {<<"s", k>> : k \in 1..MaxConnects}
Heartbeats == {<<"p", k>> : k \in 1..MaxConnects}
Tasks == Callers \cup Watchdogs \cup Handlers \cup Cleaners \cup {Main}
           \cup Starters \cup Heartbeats
NoTask == <<"none", 0>>

\* A task that does not exist (not created yet, or finished).
NewTask ==
  [pc |-> "none", op |-> "none", nxt |-> "none", ret |-> "none",
   err |-> FALSE, cancel |-> FALSE, track |-> None,
   v |-> 0, sid |-> 0, cret |-> "none", i |-> 0, again |-> FALSE,
   steps |-> <<>>]

\* PeerContext.__init__ and the RTCPeerConnection it holds.  conn is
\* pc.connectionState ("none": not created), remote is "remoteDescription is
\* not None", gcb and ccb count the icegatheringstatechange and
\* connectionstatechange callbacks scheduled and not yet run.  History:
\* applied (addIceCandidate calls), early (candidates received before
\* setRemoteDescription resolved), flushed, torn, pub (messages published),
\* skipped (sentinel publishes skipped while disconnected), counted (add_client
\* has returned to the session's handler without an exception), added (the
\* handler's call of add_client is over, with or without an exception), removes (the
\* remove_client calls made by teardowns of the session).
PeerContext ==
  [viewer |-> 0, conn |-> "none", remote |-> FALSE, local |-> FALSE,
   pending |-> <<>>, relay_track |-> None, gather |-> "new", listeners |-> FALSE,
   gcb |-> 0, ccb |-> 0,
   applied |-> <<>>, early |-> <<>>, flushed |-> FALSE, torn |-> FALSE,
   pub |-> <<>>, skipped |-> 0, counted |-> FALSE, removes |-> 0,
   added |-> FALSE]

\* SharedRTSPPlayer.__init__.  stall abstracts time.time() - _last_frame_time,
\* counted in reconnect intervals and saturating just above the threshold.
\* late: a read of a destroyed puller's track (original_recv in recv_wrapper)
\* is still in flight.  History: fed (the puller whose frame set ready).
SharedRTSPPlayer ==
  [created |-> TRUE, active_clients |-> 0, player |-> None, video |-> FALSE, relay |-> FALSE,
   ready |-> FALSE, stopping |-> FALSE, watchdog_task |-> NoTask, stall |-> 0,
   lock |-> NoTask, lockq |-> <<>>, late |-> FALSE, fed |-> None]

\* ok turns FALSE when a run needs more than the model's bounds provide.
World ==
  [cam |-> cam, task |-> task, sess |-> sess, peers |-> peers, cleanup |-> cleanup,
   hist |-> hist, app |-> app, ok |-> TRUE]

Apply(W) ==
  /\ W.ok
  /\ cam' = W.cam
  /\ task' = W.task
  /\ sess' = W.sess
  /\ peers' = W.peers
  /\ cleanup' = W.cleanup
  /\ hist' = W.hist
  /\ app' = W.app

\* What the environment decides within one run of a task: the outcome of
\* MediaPlayer(...) in _create_player, and whether an aiortc call that was in
\* flight when its peer connection got closed resolves or raises.
Oracles(W) ==
  [create : IF W.hist.fails < MaxFail THEN {"ok", "raise", "novideo"} ELSE {"ok"},
   lib : {"ok"}]

LibOracles(W) ==
  [create : IF W.hist.fails < MaxFail THEN {"ok", "raise", "novideo"} ELSE {"ok"},
   lib : {"ok", "raise"}]

\* Labels at which a task is suspended in an await (or does not run).
AwaitLabels ==
  {"none", "idle", "lock_wait", "stop_wd", "stop_drain", "stop_settle", "wd_sleep",
   "done", "c_start", "cl_wait", "cl_close", "cl_sleep", "settle_sleep",
   "srd", "flush", "answer", "sld",
   "main_sleep", "sd_gather", "sd_final", "down", "st_sleep", "hb_sleep"}

Goto(W, t, l) == [W EXCEPT !.task[t].pc = l]

\* "async with self._lock" (entry)
AcquireLock(W, t, next) ==
  IF W.cam.lock = NoTask
  THEN [W EXCEPT !.cam.lock = t, !.task[t].pc = next]
  ELSE [W EXCEPT !.cam.lockq = Append(@, t),
                 !.task[t].pc = "lock_wait", !.task[t].nxt = next]

\* "async with self._lock" (exit) without waking the next waiter
ReleaseLock_NoWakeup(W) == [W EXCEPT !.cam.lock = NoTask]

\* "async with self._lock" (exit)
ReleaseLock(W) ==
  IF W.cam.lockq = <<>>
  THEN [W EXCEPT !.cam.lock = NoTask]
  ELSE [W EXCEPT !.cam.lock = Head(W.cam.lockq), !.cam.lockq = Tail(@)]

\* A public call of the shared source returns to its caller.
Return(W, t) == [W EXCEPT !.task[t].pc = W.task[t].ret, !.task[t].op = "none"]

\* ------------------------------------------------------- SharedRTSPPlayer
\* _create_player: _last_frame_time = now, then MediaPlayer(...); an exception
\* (or a player without a video track) is re-raised to the caller.
CreatePlayer(W, t, o) ==
  LET W1 == [W EXCEPT !.cam.stall = 0] IN
  CASE o.create = "ok" ->
         [W1 EXCEPT !.cam.player = W.hist.pullers + 1, !.cam.video = TRUE,
                    !.hist.pullers = @ + 1]
    [] o.create = "novideo" ->
         [W1 EXCEPT !.cam.player = W.hist.pullers + 1, !.cam.video = FALSE,
                    !.hist.pullers = @ + 1, !.hist.fails = @ + 1,
                    !.task[t].err = TRUE]
    [] OTHER ->
         [W1 EXCEPT !.hist.fails = @ + 1, !.task[t].err = TRUE]

FreeWatchdogs(W) == {w \in Watchdogs : W.task[w].pc = "none"}

\* _start_watchdog: create_task(self._watchdog()) unless one is referenced.
StartWatchdog(W) ==
  IF W.cam.watchdog_task # NoTask THEN W
  ELSE IF FreeWatchdogs(W) = {} THEN [W EXCEPT !.ok = FALSE]
  ELSE LET w == CHOOSE x \in FreeWatchdogs(W) :
                  \A y \in FreeWatchdogs(W) : x[2] <= y[2]
       IN [W EXCEPT !.cam.watchdog_task = w,
                    !.task[w] = [NewTask EXCEPT !.pc = "wd_sleep"]]

\* _start_locked
StartLocked(W, t, o) ==
  IF W.cam.player = None
  THEN LET W1 == CreatePlayer([W EXCEPT !.cam.relay = TRUE], t, o)
       IN IF W1.task[t].err THEN W1 ELSE StartWatchdog(W1)
  ELSE W

\* Variant of add_client that tests for the first client before counting it.
AddClientBody_TestBeforeIncrement(W, t, o) ==
  LET W1 == [W EXCEPT !.cam.active_clients = @ + 1]
      W2 == IF W.cam.active_clients = 1 THEN StartLocked(W1, t, o) ELSE W1
  IN Return(ReleaseLock(W2), t)

\* add_client, with the lock held
AddClientBody(W, t, o) ==
  LET W1 == [W EXCEPT !.cam.active_clients = @ + 1]
      W2 == IF W1.cam.active_clients = 1 THEN StartLocked(W1, t, o) ELSE W1
  IN Return(ReleaseLock(W2), t)

\* Variant of remove_client without the clamp at zero.
RemoveClientBody_NoClamp(W, t) ==
  LET W1 == [W EXCEPT !.cam.active_clients = @ - 1]
  IN IF W1.cam.active_clients = 0
     THEN Goto(W1, t, "stop_begin")
     ELSE Return(ReleaseLock(W1), t)

\* Variant of remove_client that raises when there is no client to remove.
RemoveClientBody_RaiseAtZero(W, t) ==
  IF W.cam.active_clients = 0
  THEN Return(ReleaseLock([W EXCEPT !.task[t].err = TRUE]), t)
  ELSE LET W1 == [W EXCEPT !.cam.active_clients = @ - 1]
       IN IF W1.cam.active_clients = 0
          THEN Goto(W1, t, "stop_begin")
          ELSE Return(ReleaseLock(W1), t)

\* remove_client, with the lock held, up to the call of _stop_locked
RemoveClientBody(W, t) ==
  LET W1 == [W EXCEPT !.cam.active_clients = Max(0, @ - 1)]
  IN IF W1.cam.active_clients = 0
     THEN Goto(W1, t, "stop_begin")
     ELSE Return(ReleaseLock(W1), t)

\* shutdown, with the lock held, up to the call of _stop_locked
ShutdownBody(W, t) == Goto([W EXCEPT !.cam.active_clients = 0], t, "stop_begin")

\* get_track, with the lock held: (None, False) without a player or a video
\* track, otherwise a track fed by the current puller
GetTrackBody(W, t) ==
  LET tr == IF W.cam.player = None \/ ~W.cam.video THEN None ELSE W.cam.player
  IN Return(ReleaseLock([W EXCEPT !.task[t].track = tr]), t)

\* _stop_locked, first part: _stopping = True; cancel the watchdog and await it.
\* Called from the watchdog itself, cancel() only marks the running task and the
\* await of itself is answered by a CancelledError, which the suppress swallows.
StopBegin(W, t) ==
  LET wt == W.cam.watchdog_task
      W1 == [W EXCEPT !.cam.stopping = TRUE]
  IN IF wt = NoTask THEN Goto(W1, t, "stop_player")
     ELSE IF wt = t THEN Goto(W1, t, "stop_wd")
     ELSE Goto([W1 EXCEPT !.task[wt].cancel = TRUE], t, "stop_wd")

\* _stop_locked: self._watchdog_task = None
StopAfterWatchdog(W, t) ==
  Goto([W EXCEPT !.cam.watchdog_task = NoTask], t, "stop_player")

\* _stop_locked: "if self.player:" clear the references, then sleep(0.1)
StopPlayer(W, t) ==
  IF W.cam.player # None
  THEN Goto([W EXCEPT !.cam.player = None, !.cam.video = FALSE,
                      !.cam.relay = FALSE, !.cam.ready = FALSE,
                      !.cam.fed = None,
                      !.cam.late = @ \/ W.cam.video], t, "stop_drain")
  ELSE Goto(W, t, "stop_end")

\* _stop_locked: video.stop(), player._stop(), then sleep(0.05)
StopDrained(W, t) == Goto(W, t, "stop_settle")

\* _stop_locked: the finally block
StopSettled(W, t) ==
  Goto([W EXCEPT !.cam.player = None, !.cam.video = FALSE,
                 !.cam.relay = FALSE, !.cam.ready = FALSE], t, "stop_end")

\* _stop_locked: _stopping = False, and back in the caller
StopEnd(W, t) ==
  LET W1 == [W EXCEPT !.cam.stopping = FALSE]
  IN IF W.task[t].op = "wd"
     THEN Goto(W1, t, "wd_restart")
     ELSE Return(ReleaseLock(W1), t)

\* Variant of the watchdog's check that does not look at the ready flag.
WatchdogBody_IgnoreReady(W, t) ==
  IF W.cam.active_clients = 0 \/ W.cam.player = None
     \/ ~(W.cam.stall > StallFactor \/ ~W.cam.ready)
  THEN Goto(ReleaseLock(W), t, "wd_sleep")
  ELSE Goto([W EXCEPT !.task[t].op = "wd", !.hist.restarts = @ + 1,
                      !.ok = @ /\ W.hist.restarts < MaxRestarts], t, "stop_begin")

\* _watchdog: the check made with the lock held
WatchdogBody(W, t) ==
  IF W.cam.active_clients = 0 \/ W.cam.player = None \/ ~W.cam.ready
     \/ ~(W.cam.stall > StallFactor)
  THEN Goto(ReleaseLock(W), t, "wd_sleep")
  ELSE Goto([W EXCEPT !.task[t].op = "wd", !.hist.restarts = @ + 1,
                      !.ok = @ /\ W.hist.restarts < MaxRestarts], t, "stop_begin")

\* _watchdog: _start_locked after _stop_locked; an exception ends the task
WatchdogRestart(W, t, o) ==
  LET W1 == StartLocked(W, t, o)
  IN IF W1.task[t].err
     THEN ReleaseLock([W1 EXCEPT !.task[t] = NewTask])
     ELSE Goto(ReleaseLock([W1 EXCEPT !.task[t].op = "none"]), t, "wd_sleep")

\* ---------------------------------------------------------- MQTTPublisher
Closed(W, s) == W.sess[s].conn = "closed"

\* The coroutine ends with an exception nobody handles.
Die(W, t) == [W EXCEPT !.task[t] = [NewTask EXCEPT !.pc = "done", !.err = TRUE]]

\* The coroutine returns.
Finish(W, t) == [W EXCEPT !.task[t] = [NewTask EXCEPT !.pc = "done"]]

\* publish: skipped while not connected
Publish(W, s, what) ==
  IF connected THEN [W EXCEPT !.sess[s].pub = Append(@, what)]
  ELSE IF what = "sentinel" THEN [W EXCEPT !.sess[s].skipped = @ + 1]
  ELSE W

\* A lock entry that never waits.
AcquireCleanup_NoWait(W, t, next) ==
  [W EXCEPT !.cleanup.lock = t, !.task[t].pc = next]

\* "async with self._cleanup_lock" (entry)
AcquireCleanup(W, t, next) ==
  IF W.cleanup.lock = NoTask
  THEN [W EXCEPT !.cleanup.lock = t, !.task[t].pc = next]
  ELSE [W EXCEPT !.cleanup.q = Append(@, t),
                 !.task[t].pc = "cl_wait", !.task[t].nxt = next]

\* "async with self._cleanup_lock" (exit)
ReleaseCleanup(W) ==
  IF W.cleanup.q = <<>>
  THEN [W EXCEPT !.cleanup.lock = NoTask]
  ELSE [W EXCEPT !.cleanup.lock = Head(W.cleanup.q), !.cleanup.q = Tail(@)]

\* _cleanup_peer: entry
CleanupEnter(W, t) == AcquireCleanup(W, t, "cleanup_body")

\* _cleanup_peer: stop the relay track and drop the reference, then stop the
\* transceivers and "await asyncio.wait_for(ctx.pc.close(), timeout=2.0)"
\* _cleanup_peer with remove_client called in place of the close.
CleanupStopTrack_RemoveBeforeClose(W, t) ==
  LET s == W.task[t].sid
  IN AcquireLock([W EXCEPT !.sess[s].relay_track = None, !.sess[s].torn = TRUE,
                           !.task[t].again = W.sess[s].torn,
                           !.task[t].steps = <<"transceivers", "remove">>,
                           !.task[t].op = "remove", !.task[t].ret = "cl_removed"],
                 t, "remove_body")

CleanupStopTrack(W, t) ==
  LET s == W.task[t].sid
  IN Goto([W EXCEPT !.sess[s].relay_track = None, !.sess[s].torn = TRUE,
                    !.task[t].again = W.sess[s].torn,
                    !.task[t].steps =
                       (IF W.sess[s].relay_track # None THEN <<"track">> ELSE <<>>)
                       \o <<"transceivers">>],
          t, "cl_close")

\* RTCPeerConnection.close: the state becomes closed, the change is announced
\* to the listeners, and then all listeners are removed.
ClosePeer(W, s) ==
  IF Closed(W, s) THEN W
  ELSE [W EXCEPT !.sess[s].conn = "closed",
                 !.sess[s].ccb = IF W.sess[s].listeners THEN @ + 1 ELSE @,
                 !.sess[s].listeners = FALSE]

\* _cleanup_peer: after the close, ctx.pending_ice.clear() and
\* "if self.camera: await self.camera.remove_client(remote_id)"
CleanupClosed(W, t) ==
  LET s == W.task[t].sid
      W1 == [ClosePeer(W, s) EXCEPT !.sess[s].pending = <<>>]
  IN IF W1.cam.created
     THEN AcquireLock([W1 EXCEPT !.task[t].op = "remove",
                                 !.task[t].ret = "cl_removed",
                                 !.task[t].steps = @ \o <<"close", "clear", "remove">>,
                                 !.sess[s].removes = @ + 1], t, "remove_body")
     ELSE Goto([W1 EXCEPT !.task[t].steps = @ \o <<"close", "clear">>],
               t, "cl_removed")

\* _cleanup_peer: "await asyncio.sleep(0.1)"
CleanupRemoved(W, t) == Goto(W, t, "cl_sleep")

\* _cleanup_peer: gc.collect(), the lock is released, back in the caller
CleanupExit(W, t) ==
  LET W1 == ReleaseCleanup(W)
  IN [W1 EXCEPT !.task[t].pc = W.task[t].cret, !.task[t].sid = 0,
                !.task[t].again = FALSE, !.task[t].steps = <<>>]

\* The task made for a callback's cleanup is finished.
TaskEnd(W, t) == [W EXCEPT !.task[t] = NewTask]

\* handle_remote_offer up to its first await: an invalid payload returns; a
\* session registered for the viewer is popped and torn down first.
HandleOffer(W, t, valid) ==
  LET v == W.task[t].v
      old == W.peers[v]
  IN IF ~valid THEN TaskEnd(W, t)
     ELSE IF old # 0
     THEN Goto([W EXCEPT !.peers[v] = 0, !.task[t].sid = old,
                         !.task[t].cret = "settle"], t, "cleanup_enter")
     ELSE Goto(W, t, "construct")

\* handle_remote_offer: "await asyncio.sleep(0.2)" after the teardown
Settle(W, t) == Goto(W, t, "settle_sleep")

\* handle_remote_offer: the new RTCPeerConnection and PeerContext are made and
\* registered, the event hooks attached, then "await pc.setRemoteDescription"
ConstructPeer(W, t) ==
  LET v == W.task[t].v
      s == t[2]
  IN Goto([W EXCEPT !.sess[s] = [PeerContext EXCEPT !.viewer = v, !.conn = "new",
                                                    !.listeners = TRUE],
                    !.peers[v] = s], t, "srd")

\* handle_remote_offer: setRemoteDescription has resolved (or raised, which
\* only a connection closed meanwhile may do)
RemoteDescriptionSet(W, t, o) ==
  LET s == t[2]
  IN IF Closed(W, s) /\ o.lib = "raise" THEN Die(W, t)
     ELSE Goto([W EXCEPT !.sess[s].remote = TRUE, !.task[t].i = 0], t, "flush_next")

\* Variant of the flush loop that leaves the queue as it is at its end.
FlushNext_NoClear(W, t) ==
  LET s == t[2]
      i == W.task[t].i
  IN IF i < Len(W.sess[s].pending)
     THEN Goto([W EXCEPT !.sess[s].applied = Append(@, W.sess[s].pending[i + 1]),
                         !.task[t].i = i + 1], t, "flush")
     ELSE Goto([W EXCEPT !.sess[s].flushed = TRUE, !.task[t].i = 0],
               t, "track_setup")

\* handle_remote_offer: "for c in ctx.pending_ice: await pc.addIceCandidate(c)"
\* and, the list exhausted, "ctx.pending_ice.clear()"
FlushNext(W, t) ==
  LET s == t[2]
      i == W.task[t].i
  IN IF i < Len(W.sess[s].pending)
     THEN Goto([W EXCEPT !.sess[s].applied = Append(@, W.sess[s].pending[i + 1]),
                         !.task[t].i = i + 1], t, "flush")
     ELSE Goto([W EXCEPT !.sess[s].pending = <<>>, !.sess[s].flushed = TRUE,
                         !.task[t].i = 0], t, "track_setup")

\* handle_remote_offer: one addIceCandidate of the flush has resolved
FlushResumed(W, t, o) ==
  IF Closed(W, t[2]) /\ o.lib = "raise" THEN Die(W, t) ELSE Goto(W, t, "flush_next")

\* handle_remote_offer: the camera is made on first use, then
\* "await self.camera.add_client(remote_id)"
TrackSetup(W, t) ==
  AcquireLock([W EXCEPT !.cam.created = TRUE, !.task[t].op = "add",
                        !.task[t].ret = "after_add", !.task[t].err = FALSE],
              t, "add_body")

\* handle_remote_offer: add_client returned; its exception is caught by the
\* try around the track setup; otherwise "await self.camera.get_track(...)"
AfterAddClient(W, t) ==
  IF W.task[t].err
  THEN Goto([W EXCEPT !.task[t].err = FALSE, !.sess[t[2]].added = TRUE],
            t, "answer_call")
  ELSE AcquireLock([W EXCEPT !.task[t].op = "get_track",
                             !.task[t].ret = "after_track",
                             !.sess[t[2]].counted = TRUE,
                             !.sess[t[2]].added = TRUE], t, "get_track_body")

\* handle_remote_offer: no track raises (caught); otherwise the track is kept
\* in ctx.relay_track and added to the peer connection (addTrack raises on a
\* closed connection, which is caught as well)
AfterGetTrack(W, t) ==
  LET s == t[2]
      tr == W.task[t].track
  IN IF tr = None THEN Goto(W, t, "answer_call")
     ELSE Goto([W EXCEPT !.sess[s].relay_track = tr, !.task[t].track = None],
               t, "answer_call")

\* handle_remote_offer: "answer = await pc.createAnswer()", which raises on a
\* closed connection
CreateAnswer(W, t) ==
  IF Closed(W, t[2]) THEN Die(W, t) ELSE Goto(W, t, "answer")

\* handle_remote_offer: "await pc.setLocalDescription(answer)" begins: ICE
\* gathering starts and the change of iceGatheringState is announced
SetLocalDescription(W, t, o) ==
  LET s == t[2]
  IN IF Closed(W, s) /\ o.lib = "raise" THEN Die(W, t)
     ELSE Goto([W EXCEPT !.sess[s].gather = IF Closed(W, s) THEN @ ELSE "gathering",
                         !.sess[s].gcb = IF W.sess[s].listeners THEN @ + 1 ELSE @],
               t, "sld")

\* handle_remote_offer: setLocalDescription has resolved; the answer is published
PublishAnswer(W, t, o) ==
  LET s == t[2]
  IN IF Closed(W, s) /\ o.lib = "raise" THEN Die(W, t)
     ELSE Finish(Publish([W EXCEPT !.sess[s].local = TRUE], s, "answer"), t)

\* -------------------------------------------------- NonBufferedVideoTrack
Readers == 1..NumReaders

\* A caller of recv: waiting in "await asyncio.sleep(0.01)" or not in recv; out
\* is how its last recv ended, got the frame it returned, and late tells that
\* the recv last tested the slot after the fetch task had ended on an upstream
\* failure.
NewReader == [pc |-> "idle", out |-> "none", got |-> None, late |-> FALSE]

\* NonBufferedVideoTrack.__init__; source is the upstream track ("live",
\* "error": its recv raises, "ended": it was stopped), frames counts the frames
\* it has delivered, fetch is the task of _fetch_frames.
NewWrap ==
  [source |-> "live", frames |-> 0, latest |-> None, stopping |-> FALSE,
   fetch |-> "none", reader |-> [r \in Readers |-> NewReader]]

\* recv from "while self._latest_frame is None and not self._stopping" on
TestSlot(w, r) ==
  LET late == w.source # "live" /\ w.fetch = "done" /\ ~w.stopping
  IN IF w.latest = None /\ ~w.stopping
     THEN [w EXCEPT !.reader[r] = [pc |-> "wait", out |-> "none", got |-> None,
                                   late |-> late]]
     ELSE IF w.latest = None
     THEN [w EXCEPT !.reader[r] = [pc |-> "idle", out |-> "exception", got |-> None,
                                   late |-> late]]
     ELSE [w EXCEPT !.reader[r] = [pc |-> "idle", out |-> "frame", got |-> w.latest,
                                   late |-> late]]

\* ------------------------------------------------------ build_ice_servers
\* An entry of mqtt.ice_servers: urls is "none" when the entry has no "urls"
\* key; username and credential tell whether a non-empty value is given.
ServerEntries ==
  [urls : {"none", "stun:a", "turn:b"}, username : BOOLEAN, credential : BOOLEAN]

\* The mqtt section of the configuration as far as build_ice_servers reads
\* it: the key is absent, holds something that is not a list, or holds a list.
IceConfigs ==
  {[kind |-> k, list |-> <<>>] : k \in {"absent", "notlist"}}
    \cup {[kind |-> "list", list |-> l] :
            l \in UNION {[1..n -> ServerEntries] : n \in 0..MaxServers}}

\* RTCIceServer(urls=[url]) for the default URL
DefaultServer == [urls |-> "stun:stun.l.google.com:19302", auth |-> FALSE]

\* The loop over cfg["ice_servers"]: an entry without "urls" is skipped; the
\* credentials are passed on only "if username and credential".
RECURSIVE ConfiguredServers(_)
ConfiguredServers(l) ==
  IF l = <<>> THEN <<>>
  ELSE LET e == Head(l)
       IN (IF e.urls = "none" THEN <<>>
           ELSE <<[urls |-> e.urls, auth |-> e.username /\ e.credential]>>)
          \o ConfiguredServers(Tail(l))

build_ice_servers(c) ==
  IF c.kind = "list"
  THEN IF Len(c.list) > 0 THEN ConfiguredServers(c.list) ELSE <<DefaultServer>>
  ELSE <<>>

\* ---------------------------------------------- status and shutdown
\* The application state before anything has happened (a configuration
\* without mqtt.ice_servers).  History: order (the steps run_app's shutdown
\* sequence has taken), cut (the cleanup tasks that the final cancellation
\* ended before they were done).
NewApp ==
  [interval |-> 0, exit |-> FALSE, closed |-> FALSE, status_task |-> NoTask,
   status |-> <<>>, snap |-> <<>>, gather |-> {}, down |-> FALSE,
   sig_live |-> FALSE, sig_conn |-> FALSE,
   ice_cfg |-> [kind |-> "absent", list |-> <<>>], built |-> TRUE,
   ice_servers |-> <<>>, order |-> <<>>, cut |-> {}]

\* The payload of _publish, as its status and its set of keys.
AliveStatus(W) ==
  [status |-> "alive",
   keys |-> {"device_id", "device_type", "ts", "status"}
              \cup (IF W.cam.created THEN {"camera_ready"} ELSE {})]

\* The payload run_app builds for the shutdown status.
ShutdownStatus == [status |-> "shutdown", keys |-> {"device_id", "ts", "status"}]

\* The number of heartbeats published so far.
Alive(W) ==
  Cardinality({i \in 1..Len(W.app.status) : W.app.status[i].status = "alive"})

\* _publish: nothing unless connected and not closed
StatusPublish(W) ==
  IF connected /\ ~W.app.closed
  THEN [W EXCEPT !.app.status = Append(@, AliveStatus(W)),
                 !.ok = @ /\ Alive(W) < MaxStatus]
  ELSE W

\* _start_status_task after its sleep(1.5): _publish, then the periodic task is
\* created and kept in _status_task.  The new task runs to its first await:
\* "while not self._closed and not exit_event.is_set()", sleep(interval).
StatusStart(W, t) ==
  LET hb == <<"p", t[2]>>
      W1 == StatusPublish(W)
      run == ~W1.app.closed /\ ~W1.app.exit
  IN [W1 EXCEPT !.task[t] = NewTask,
                !.task[hb] = IF run THEN [NewTask EXCEPT !.pc = "hb_sleep"] ELSE NewTask,
                !.app.status_task = IF run THEN hb ELSE NoTask]

\* _publish_status_periodically after its sleep: _publish, then the loop test
Heartbeat(W, t) ==
  LET W1 == StatusPublish(W)
  IN IF ~W1.app.closed /\ ~W1.app.exit
     THEN Goto(W1, t, "hb_sleep")
     ELSE [W1 EXCEPT !.task[t] = NewTask,
                     !.app.status_task = IF @ = t THEN NoTask ELSE @]

\* run_app, finally: "if mqtt_pub and mqtt_pub.camera: await camera.shutdown()"
ShutdownCamera(W, t) ==
  IF W.cam.created
  THEN AcquireLock([W EXCEPT !.task[t].op = "shutdown",
                             !.task[t].ret = "sd_status"], t, "shutdown_body")
  ELSE Goto(W, t, "sd_status")

\* run_app: the shutdown status, published if connected and not closed
ShutdownPublish(W, t) ==
  Goto(IF connected /\ ~W.app.closed
       THEN [W EXCEPT !.app.status = Append(@, ShutdownStatus)]
       ELSE W, t, "sd_peers")

\* The sessions in the registry, in the order of list(peers.items()).
RECURSIVE Registered(_, _)
Registered(W, v) ==
  IF v > NumViewers THEN <<>>
  ELSE (IF W.peers[v] # 0 THEN <<W.peers[v]>> ELSE <<>>) \o Registered(W, v + 1)

\* run_app: "if mqtt_pub.peers:" the loop runs over a copy of the registry
ShutdownPeers(W, t) ==
  LET snap == Registered(W, 1)
      W1 == [W EXCEPT !.app.order = Append(@, "cleanup")]
  IN IF snap = <<>> THEN Goto(W1, t, "sd_tasks")
     ELSE Goto([W1 EXCEPT !.app.snap = snap], t, "sd_loop")

\* run_app: "await _cleanup_peer(remote_id, ctx)" for the next entry of the
\* copy (the entry stays in the registry); after the last, peers.clear()
ShutdownLoop(W, t) ==
  IF W.app.snap = <<>>
  THEN Goto([W EXCEPT !.peers = [v \in Viewers |-> 0]], t, "sd_tasks")
  ELSE Goto([W EXCEPT !.task[t].sid = Head(W.app.snap), !.task[t].cret = "sd_loop",
                      !.app.snap = Tail(@)], t, "cleanup_enter")

\* _cleanup_tasks: the tasks made by on_connectionstatechange and not done
CleanupTasks(W) == {c \in Cleaners : W.task[c].pc # "none"}

\* run_app: "if mqtt_pub._cleanup_tasks: await asyncio.gather(...)"
ShutdownTasks(W, t) ==
  LET W1 == [W EXCEPT !.app.order = Append(@, "await")]
  IN IF CleanupTasks(W) = {} THEN Goto(W1, t, "sd_close")
     ELSE Goto([W1 EXCEPT !.app.gather = CleanupTasks(W)], t, "sd_gather")

\* Task.cancel() on every other task.  The CancelledError is raised at the
\* task's await and ends it ("async with" gives its lock back), except in
\* _stop_locked's "with contextlib.suppress(asyncio.CancelledError): await
\* self._watchdog_task", which swallows it.  Callbacks that pyee has scheduled
\* are tasks as well.
CancelAll(W, t) ==
  LET lives(x) == x = t \/ (x \in Tasks /\ W.task[x].pc = "stop_wd")
  IN [W EXCEPT
        !.task = [x \in Tasks |->
                    IF lives(x) THEN W.task[x]
                    ELSE IF x \in Handlers /\ W.task[x].pc # "none"
                    THEN [NewTask EXCEPT !.pc = "done"]
                    ELSE NewTask],
        !.cam.lock = IF lives(@) THEN @ ELSE NoTask,
        !.cam.lockq = <<>>,
        !.cleanup = [lock |-> IF lives(W.cleanup.lock) THEN W.cleanup.lock ELSE NoTask,
                     q |-> <<>>],
        !.sess = [s \in Sessions |-> [W.sess[s] EXCEPT !.gcb = 0, !.ccb = 0]],
        !.app.cut = {c \in Cleaners : ~lives(c) /\ W.task[c].pc # "none"}]

\* Variant of the end of the shutdown sequence that cancels the tasks before it
\* closes the transport.
ShutdownClose_CancelFirst(W, t) ==
  LET W1 == [W EXCEPT !.app.closed = TRUE, !.app.status_task = NoTask,
                      !.app.gather = {},
                      !.app.order = @ \o <<"cancel", "close">>]
  IN Goto(CancelAll(W1, t), t, "sd_final")

\* run_app: mqtt_pub.close() (the status task is cancelled, the client
\* disconnected and its loop stopped, _closed = True), then every other task
\* is cancelled and awaited.
ShutdownClose(W, t) ==
  LET W1 == [W EXCEPT !.app.closed = TRUE, !.app.status_task = NoTask,
                      !.app.gather = {},
                      !.app.order = @ \o <<"close", "cancel">>]
  IN Goto(CancelAll(W1, t), t, "sd_final")

\* run_app returns.
ShutdownEnd(W, t) == Goto([W EXCEPT !.app.down = TRUE], t, "down")

\* ----------------------------------------------------------- a task's run
Exec(W, t, o) ==
  LET l == W.task[t].pc IN
  CASE l = "add_body" -> AddClientBody(W, t, o)
    [] l = "remove_body" -> RemoveClientBody(W, t)
    [] l = "shutdown_body" -> ShutdownBody(W, t)
    [] l = "get_track_body" -> GetTrackBody(W, t)
    [] l = "stop_begin" -> StopBegin(W, t)
    [] l = "stop_after_wd" -> StopAfterWatchdog(W, t)
    [] l = "stop_player" -> StopPlayer(W, t)
    [] l = "stop_drained" -> StopDrained(W, t)
    [] l = "stop_settled" -> StopSettled(W, t)
    [] l = "stop_end" -> StopEnd(W, t)
    [] l = "wd_body" -> WatchdogBody(W, t)
    [] l = "wd_restart" -> WatchdogRestart(W, t, o)
    [] l = "cleanup_enter" -> CleanupEnter(W, t)
    [] l = "cleanup_body" -> CleanupStopTrack(W, t)
    [] l = "cl_closed" -> CleanupClosed(W, t)
    [] l = "cl_removed" -> CleanupRemoved(W, t)
    [] l = "cl_exit" -> CleanupExit(W, t)
    [] l = "task_end" -> TaskEnd(W, t)
    [] l = "settle" -> Settle(W, t)
    [] l = "construct" -> ConstructPeer(W, t)
    [] l = "srd_done" -> RemoteDescriptionSet(W, t, o)
    [] l = "flush_next" -> FlushNext(W, t)
    [] l = "flush_done" -> FlushResumed(W, t, o)
    [] l = "track_setup" -> TrackSetup(W, t)
    [] l = "after_add" -> AfterAddClient(W, t)
    [] l = "after_track" -> AfterGetTrack(W, t)
    [] l = "answer_call" -> CreateAnswer(W, t)
    [] l = "answer_done" -> SetLocalDescription(W, t, o)
    [] l = "sld_done" -> PublishAnswer(W, t, o)
    [] l = "st_woke" -> StatusStart(W, t)
    [] l = "hb_woke" -> Heartbeat(W, t)
    [] l = "sd_camera" -> ShutdownCamera(W, t)
    [] l = "sd_status" -> ShutdownPublish(W, t)
    [] l = "sd_peers" -> ShutdownPeers(W, t)
    [] l = "sd_loop" -> ShutdownLoop(W, t)
    [] l = "sd_tasks" -> ShutdownTasks(W, t)
    [] l = "sd_close" -> ShutdownClose(W, t)
    [] l = "sd_end" -> ShutdownEnd(W, t)

RECURSIVE Run(_, _, _)
Run(W, t, o) ==
  CHOOSE R \in {IF V.task[t].pc \in AwaitLabels THEN V ELSE Run(Exec(V, t, o), t, o)
                 : V \in {W}} : TRUE

\* --------------------------------------------------------------- actions
\* An event callback that pyee has scheduled (ensure_future) is at the head of
\* the loop's ready queue: it runs before a message or a timer that comes
\* later is served.
Urgent == \E s \in Sessions : sess[s].gcb > 0 \/ sess[s].ccb > 0

BodyOf(op) ==
  CASE op = "add" -> "add_body"
    [] op = "remove" -> "remove_body"
    [] op = "get_track" -> "get_track_body"
    [] op = "shutdown" -> "shutdown_body"

Waiting == {u \in Callers : task[u].pc = "lock_wait"}

\* A caller calls add_client, remove_client, get_track or shutdown.
Call(u, op) ==
  /\ task[u].pc = "idle"
  /\ Len(calls) + Cardinality(Waiting) < MaxCalls
  /\ \E o \in Oracles(World) :
       LET W1 == [World EXCEPT !.task[u].op = op, !.task[u].ret = "idle",
                               !.task[u].err = FALSE]
       IN Apply(Run(AcquireLock(W1, u, BodyOf(op)), u, o))
  /\ calls' = IF cam.lock = NoTask THEN Append(calls, op) ELSE calls
  /\ UNCHANGED <<connected, nice, wrap>>

\* A task waiting for the source lock is handed it and goes on.
LockGranted(t) ==
  /\ task[t].pc = "lock_wait"
  /\ cam.lock = t
  /\ \E o \in Oracles(World) : Apply(Run(Goto(World, t, task[t].nxt), t, o))
  /\ calls' = IF t \in Callers THEN Append(calls, task[t].op) ELSE calls
  /\ UNCHANGED <<connected, nice, wrap>>

\* The cancelled watchdog task ends: it was asleep or waiting for the lock.
WatchdogCancelled(w) ==
  /\ task[w].cancel
  /\ task[w].pc \in {"wd_sleep", "lock_wait"}
  /\ task' = [task EXCEPT ![w] = NewTask]
  /\ cam' = [cam EXCEPT !.lockq = SelectSeq(@, LAMBDA x : x # w)]
  /\ UNCHANGED <<sess, peers, cleanup, connected, nice, hist, calls, app, wrap>>

\* "await self._watchdog_task" returns
StopWatchdogDone(t) ==
  /\ task[t].pc = "stop_wd"
  /\ \/ cam.watchdog_task = t
     \/ task[cam.watchdog_task].pc = "none"
  /\ \E o \in Oracles(World) : Apply(Run(Goto(World, t, "stop_after_wd"), t, o))
  /\ UNCHANGED <<connected, nice, calls, wrap>>

\* sleep(0.1) in _stop_locked is over
StopDrainDone(t) ==
  /\ ~Urgent
  /\ task[t].pc = "stop_drain"
  /\ \E o \in Oracles(World) : Apply(Run(Goto(World, t, "stop_drained"), t, o))
  /\ UNCHANGED <<connected, nice, calls, wrap>>

\* sleep(0.05) in _stop_locked is over
StopSettleDone(t) ==
  /\ ~Urgent
  /\ task[t].pc = "stop_settle"
  /\ \E o \in Oracles(World) : Apply(Run(Goto(World, t, "stop_settled"), t, o))
  /\ UNCHANGED <<connected, nice, calls, wrap>>

\* sleep(reconnect_interval) in _watchdog is over: take the lock and check
WatchdogWake(w) ==
  /\ ~Urgent
  /\ task[w].pc = "wd_sleep"
  /\ ~task[w].cancel
  /\ \E o \in Oracles(World) : Apply(Run(AcquireLock(World, w, "wd_body"), w, o))
  /\ UNCHANGED <<connected, nice, calls, wrap>>

\* recv_wrapper: a frame of the live puller is received
Frame ==
  /\ cam.player # None
  /\ cam.video
  /\ ~cam.stopping
  /\ cam' = [cam EXCEPT !.stall = 0, !.ready = TRUE, !.fed = cam.player]
  /\ UNCHANGED <<task, sess, peers, cleanup, connected, nice, hist, calls, app, wrap>>

\* recv_wrapper: a read that was in flight on the track of a puller destroyed
\* since returns a frame.  The wrapper looks at _stopping only.
LateFrame ==
  /\ cam.late
  /\ cam' = IF cam.stopping THEN [cam EXCEPT !.late = FALSE]
            ELSE [cam EXCEPT !.late = FALSE, !.stall = 0, !.ready = TRUE]
  /\ UNCHANGED <<task, sess, peers, cleanup, connected, nice, hist, calls, app, wrap>>

\* recv_wrapper: the read in flight on the destroyed puller's track raises.
LateFail ==
  /\ cam.late
  /\ cam' = [cam EXCEPT !.late = FALSE]
  /\ UNCHANGED <<task, sess, peers, cleanup, connected, nice, hist, calls, app, wrap>>

\* A reconnect interval passes without a frame.  The watchdog reads the time
\* since the last frame only when ready is set, so it is counted from then.
Tick ==
  /\ cam.player # None
  /\ cam.ready
  /\ cam.stall < StallFactor + 1
  /\ cam' = [cam EXCEPT !.stall = @ + 1]
  /\ UNCHANGED <<task, sess, peers, cleanup, connected, nice, hist, calls, app, wrap>>

\* ---------------------------------------------------- the shared source
InitSrc ==
  /\ cam = SharedRTSPPlayer
  /\ task = [t \in Tasks |-> IF t \in Callers THEN [NewTask EXCEPT !.pc = "idle", !.ret = "idle"] ELSE NewTask]
  /\ sess = [s \in Sessions |-> PeerContext]
  /\ peers = [v \in Viewers |-> 0]
  /\ cleanup = [lock |-> NoTask, q |-> <<>>]
  /\ connected = FALSE
  /\ nice = 0
  /\ hist = [pullers |-> 0, fails |-> 0, restarts |-> 0]
  /\ calls = <<>>
  /\ app = NewApp
  /\ wrap = NewWrap

NextSrc ==
  \/ \E u \in Callers, op \in {"add", "remove", "get_track", "shutdown"} : Call(u, op)
  \/ \E t \in Tasks : LockGranted(t)
  \/ \E w \in Watchdogs : WatchdogCancelled(w)
  \/ \E t \in Tasks : StopWatchdogDone(t)
  \/ \E t \in Tasks : StopDrainDone(t)
  \/ \E t \in Tasks : StopSettleDone(t)
  \/ \E w \in Watchdogs : WatchdogWake(w)
  \/ Frame
  \/ Tick

SpecSrc == InitSrc /\ [][NextSrc]_vars

\* The shared source with the reads that outlive their puller.
NextLate == NextSrc \/ LateFrame \/ LateFail

SpecLate == InitSrc /\ [][NextLate]_vars

\* ---------------------------------------------- actions of the publisher
\* _on_connect / _on_disconnect of the MQTT client, which run in the client's
\* own thread
\* A successful connect schedules _start_status_task when the interval is
\* positive; that coroutine does nothing unless _status_task is None or done,
\* and otherwise starts with sleep(1.5).
FreeStarter(k) == task[<<"s", k>>].pc = "none" /\ task[<<"p", k>>].pc = "none"

MqttConnect ==
  /\ ~connected
  /\ ~app.closed
  /\ connected' = TRUE
  /\ IF app.interval > 0 /\ app.status_task = NoTask
     THEN \E k \in 1..MaxConnects :
            /\ FreeStarter(k)
            /\ \A j \in 1..(k - 1) : ~FreeStarter(j)
            /\ task' = [task EXCEPT ![<<"s", k>>] = [NewTask EXCEPT !.pc = "st_sleep"]]
     ELSE UNCHANGED task
  /\ UNCHANGED <<cam, sess, peers, cleanup, nice, hist, calls, app, wrap>>

MqttDisconnect ==
  /\ connected
  /\ ~app.closed
  /\ connected' = FALSE
  /\ UNCHANGED <<cam, task, sess, peers, cleanup, nice, hist, calls, app, wrap>>

\* _on_message with an sdp payload: handle_remote_offer is scheduled as a
\* coroutine of its own and runs to its first await.
OfferArrive(v, valid) ==
  /\ ~Urgent
  /\ connected
  /\ ~app.closed
  /\ \E h \in Handlers :
       /\ task[h].pc = "none"
       /\ \A g \in Handlers : g[2] < h[2] => task[g].pc # "none"
       /\ \E o \in Oracles(World) :
            LET W1 == [World EXCEPT !.task[h].v = v]
            IN Apply(Run(HandleOffer(W1, h, valid), h, o))
  /\ UNCHANGED <<connected, nice, calls, wrap>>

\* _on_message with an ice payload: handle_remote_ice.  kind is "null" (the
\* end-of-candidates signal), "bad" (candidate_from_sdp raises) or a candidate.
IceArrive(v, kind) ==
  /\ ~Urgent
  /\ connected
  /\ ~app.closed
  /\ kind = "cand" => nice < MaxIce
  /\ nice' = IF kind = "cand" THEN nice + 1 ELSE nice
  /\ LET s == peers[v]
         c == nice + 1
     IN sess' =
          IF kind = "null" \/ s = 0 THEN sess
          ELSE IF sess[s].conn \in {"connected", "closed", "failed"}
          THEN [sess EXCEPT ![s].pending = <<>>]
          ELSE IF kind = "bad" THEN sess
          ELSE IF ~sess[s].remote
          THEN [sess EXCEPT ![s].pending = Append(@, c), ![s].early = Append(@, c)]
          ELSE [sess EXCEPT ![s].applied = Append(@, c)]
  /\ UNCHANGED <<cam, task, peers, cleanup, connected, hist, calls, app, wrap>>

\* A handler suspended in an aiortc call goes on when the call resolves.
Resume(t, at, to) ==
  /\ task[t].pc = at
  /\ \E o \in LibOracles(World) : Apply(Run(Goto(World, t, to), t, o))
  /\ UNCHANGED <<connected, nice, calls, wrap>>

RemoteDescriptionDone(h) == Resume(h, "srd", "srd_done")

FlushDone(h) == Resume(h, "flush", "flush_done")

AnswerDone(h) == Resume(h, "answer", "answer_done")

\* setLocalDescription resolves once ICE gathering is complete
LocalDescriptionDone(h) ==
  /\ sess[h[2]].gather = "complete" \/ sess[h[2]].conn = "closed"
  /\ Resume(h, "sld", "sld_done")

\* sleep(0.2) after the teardown of the old session is over
SettleDone(h) == ~Urgent /\ Resume(h, "settle_sleep", "construct")

\* The task made by on_connectionstatechange starts _cleanup_peer.
CleanerStart(c) == Resume(c, "c_start", "cleanup_enter")

\* A task waiting for the cleanup lock is handed it and goes on.
CleanupGranted(t) ==
  /\ cleanup.lock = t
  /\ Resume(t, "cl_wait", task[t].nxt)

\* pc.close() has returned (or its two seconds have run out)
CleanupCloseDone(t) == Resume(t, "cl_close", "cl_closed")

\* sleep(0.1) at the end of _cleanup_peer is over
CleanupSleepDone(t) == ~Urgent /\ Resume(t, "cl_sleep", "cl_exit")

\* ICE gathering of a session completes; the change is announced.
GatherComplete(s) ==
  /\ ~Urgent
  /\ sess[s].gather = "gathering"
  /\ sess[s].conn # "closed"
  /\ sess' = [sess EXCEPT ![s].gather = "complete",
                          ![s].gcb = IF sess[s].listeners THEN @ + 1 ELSE @]
  /\ UNCHANGED <<cam, task, peers, cleanup, connected, nice, hist, calls, app, wrap>>

\* Variant of on_icegatheringstatechange that publishes at every change.
GatherCallback_AnyChange(s) ==
  /\ sess[s].gcb > 0
  /\ Apply(Publish([World EXCEPT !.sess[s].gcb = @ - 1], s, "sentinel"))
  /\ UNCHANGED <<connected, nice, calls, wrap>>

\* on_icegatheringstatechange runs and reads pc.iceGatheringState
GatherCallback(s) ==
  /\ sess[s].gcb > 0
  /\ LET W1 == [World EXCEPT !.sess[s].gcb = @ - 1]
     IN Apply(IF sess[s].gather = "complete" THEN Publish(W1, s, "sentinel") ELSE W1)
  /\ UNCHANGED <<connected, nice, calls, wrap>>

\* The connection of a session with both descriptions set changes its state.
ConnChange(s, to) ==
  /\ ~Urgent
  /\ sess[s].local
  /\ \/ sess[s].conn = "new" /\ to \in {"connected", "failed"}
     \/ sess[s].conn = "connected" /\ to = "failed"
  /\ sess' = [sess EXCEPT ![s].conn = to,
                          ![s].ccb = IF sess[s].listeners THEN @ + 1 ELSE @]
  /\ UNCHANGED <<cam, task, peers, cleanup, connected, nice, hist, calls, app, wrap>>

\* Variant of on_connectionstatechange that tears its own session down when
\* the viewer has no session registered.
ConnCallback_CleanupUnregistered(s) ==
  /\ sess[s].ccb > 0
  /\ LET v == sess[s].viewer
         old == IF peers[v] # 0 THEN peers[v] ELSE s
         W1 == [World EXCEPT !.sess[s].ccb = @ - 1]
     IN Apply(IF sess[s].conn \in {"failed", "closed"}
              THEN [W1 EXCEPT !.peers[v] = 0,
                              !.task[<<"c", old>>] =
                                 [NewTask EXCEPT !.pc = "c_start", !.sid = old,
                                                 !.cret = "task_end"]]
              ELSE W1)
  /\ UNCHANGED <<connected, nice, calls, wrap>>

\* Variant of on_connectionstatechange that reacts to "closed" only.
ConnCallback_ClosedOnly(s) ==
  /\ sess[s].ccb > 0
  /\ LET v == sess[s].viewer
         old == peers[v]
         W1 == [World EXCEPT !.sess[s].ccb = @ - 1]
     IN Apply(IF sess[s].conn = "closed" /\ old # 0
              THEN [W1 EXCEPT !.peers[v] = 0,
                              !.task[<<"c", old>>] =
                                 [NewTask EXCEPT !.pc = "c_start", !.sid = old,
                                                 !.cret = "task_end"]]
              ELSE W1)
  /\ UNCHANGED <<connected, nice, calls, wrap>>

\* on_connectionstatechange runs and reads pc.connectionState: for failed or
\* closed the viewer's registered session is popped and a cleanup task made.
ConnCallback(s) ==
  /\ sess[s].ccb > 0
  /\ LET v == sess[s].viewer
         old == peers[v]
         W1 == [World EXCEPT !.sess[s].ccb = @ - 1]
     IN Apply(IF sess[s].conn \in {"failed", "closed"} /\ old # 0
              THEN [W1 EXCEPT !.peers[v] = 0,
                              !.task[<<"c", old>>] =
                                 [NewTask EXCEPT !.pc = "c_start", !.sid = old,
                                                 !.cret = "task_end"]]
              ELSE W1)
  /\ UNCHANGED <<connected, nice, calls, wrap>>

\* ----------------------------------------------------------- the publisher
Init ==
  /\ cam = [SharedRTSPPlayer EXCEPT !.created = FALSE]
  /\ task = [t \in Tasks |-> IF t = Main THEN [NewTask EXCEPT !.pc = "main_sleep"]
                                         ELSE NewTask]
  /\ sess = [s \in Sessions |-> PeerContext]
  /\ peers = [v \in Viewers |-> 0]
  /\ cleanup = [lock |-> NoTask, q |-> <<>>]
  /\ connected = FALSE
  /\ nice = 0
  /\ hist = [pullers |-> 0, fails |-> 0, restarts |-> 0]
  /\ calls = <<>>
  /\ app = NewApp
  /\ wrap = NewWrap

Next ==
  \/ MqttConnect
  \/ MqttDisconnect
  \/ \E v \in Viewers, valid \in BOOLEAN : OfferArrive(v, valid)
  \/ \E v \in Viewers, kind \in {"cand", "null", "bad"} : IceArrive(v, kind)
  \/ \E h \in Handlers : RemoteDescriptionDone(h)
  \/ \E h \in Handlers : FlushDone(h)
  \/ \E h \in Handlers : AnswerDone(h)
  \/ \E h \in Handlers : LocalDescriptionDone(h)
  \/ \E h \in Handlers : SettleDone(h)
  \/ \E t \in Tasks : CleanupCloseDone(t)
  \/ \E t \in Tasks : CleanupSleepDone(t)
  \/ \E s \in Sessions : GatherComplete(s)
  \/ \E s \in Sessions : GatherCallback(s)
  \/ \E s \in Sessions : ConnCallback(s)
  \/ \E w \in Watchdogs : WatchdogCancelled(w)
  \/ \E t \in Tasks : StopWatchdogDone(t)
  \/ \E t \in Tasks : StopDrainDone(t)
  \/ \E t \in Tasks : StopSettleDone(t)

\* Offers, ICE messages, gathering and broker connection.  With sessions
\* closed only by a later offer no task ever finds a lock taken.
Spec == Init /\ [][Next]_vars

\* The same with connections that become connected or fail, whose teardown
\* runs in tasks of its own and contends for the locks.
NextConn ==
  \/ Next
  \/ \E t \in Tasks : LockGranted(t)
  \/ \E t \in Tasks : CleanupGranted(t)
  \/ \E s \in Sessions, to \in {"connected", "failed"} : ConnChange(s, to)
  \/ \E c \in Cleaners : CleanerStart(c)

SpecConn == Init /\ [][NextConn]_vars

\* What the event loop does by itself: it resumes every task whose await is
\* over (a lock handed over, a timer expired, an aiortc call resolved) and runs
\* every scheduled callback.
Progress ==
  \/ \E h \in Handlers : RemoteDescriptionDone(h)
  \/ \E h \in Handlers : FlushDone(h)
  \/ \E h \in Handlers : AnswerDone(h)
  \/ \E h \in Handlers : LocalDescriptionDone(h)
  \/ \E h \in Handlers : SettleDone(h)
  \/ \E c \in Cleaners : CleanerStart(c)
  \/ \E t \in Tasks : CleanupGranted(t)
  \/ \E t \in Tasks : CleanupCloseDone(t)
  \/ \E t \in Tasks : CleanupSleepDone(t)
  \/ \E s \in Sessions : GatherComplete(s)
  \/ \E s \in Sessions : GatherCallback(s)
  \/ \E s \in Sessions : ConnCallback(s)
  \/ \E t \in Tasks : LockGranted(t)
  \/ \E w \in Watchdogs : WatchdogCancelled(w)
  \/ \E t \in Tasks : StopWatchdogDone(t)
  \/ \E t \in Tasks : StopDrainDone(t)
  \/ \E t \in Tasks : StopSettleDone(t)

\* Offers and connections that connect or fail, the broker staying connected;
\* the event loop keeps running.
NextLive ==
  \/ MqttConnect
  \/ \E v \in Viewers : OfferArrive(v, TRUE)
  \/ \E s \in Sessions, to \in {"connected", "failed"} : ConnChange(s, to)
  \/ Progress

SpecLive == Init /\ [][NextLive]_vars /\ WF_vars(Progress)

\* ------------------------------------------------- status and shutdown
\* sleep(1.5) in _start_status_task is over
StatusStartDone(s) == ~Urgent /\ Resume(s, "st_sleep", "st_woke")

\* sleep(self._status_interval) in _publish_status_periodically is over
HeartbeatWake(p) == ~Urgent /\ Resume(p, "hb_sleep", "hb_woke")

\* handle_signal: exit_event.set().  sig_live and sig_conn keep what was true
\* at that moment.
Signal ==
  /\ ~app.exit
  /\ app' = [app EXCEPT !.exit = TRUE,
                        !.sig_live = \E v \in Viewers : peers[v] # 0,
                        !.sig_conn = connected]
  /\ UNCHANGED <<cam, task, sess, peers, cleanup, connected, nice, hist, calls, wrap>>

\* run_app: sleep(1) is over and exit_event is set; the shutdown sequence
\* starts.
MainWake ==
  /\ ~Urgent
  /\ app.exit
  /\ Resume(Main, "main_sleep", "sd_camera")

\* run_app: the gather of the cleanup tasks returns
MainGatherDone ==
  /\ \A c \in app.gather : task[c].pc = "none"
  /\ Resume(Main, "sd_gather", "sd_close")

\* run_app: the gather of the cancelled tasks returns
MainDone ==
  /\ \A x \in Tasks \ {Main} : task[x].pc \in {"none", "done"}
  /\ Resume(Main, "sd_final", "sd_end")

\* The publisher without heartbeat (--no-status) until run_app has returned:
\* the broker connects, offers come and the signal arrives at any moment.
NextDown ==
  \/ MqttConnect
  \/ \E v \in Viewers : OfferArrive(v, TRUE)
  \/ Progress
  \/ Signal
  \/ MainWake
  \/ MainGatherDone
  \/ MainDone

SpecDown == Init /\ [][NextDown]_vars

\* The publisher without heartbeat, connected to the broker, with connections
\* that fail, until run_app has returned.
InitFail ==
  /\ cam = [SharedRTSPPlayer EXCEPT !.created = FALSE]
  /\ task = [t \in Tasks |-> IF t = Main THEN [NewTask EXCEPT !.pc = "main_sleep"]
                                         ELSE NewTask]
  /\ sess = [s \in Sessions |-> PeerContext]
  /\ peers = [v \in Viewers |-> 0]
  /\ cleanup = [lock |-> NoTask, q |-> <<>>]
  /\ connected = TRUE
  /\ nice = 0
  /\ hist = [pullers |-> 0, fails |-> 0, restarts |-> 0]
  /\ calls = <<>>
  /\ app = NewApp
  /\ wrap = NewWrap

NextFail ==
  \/ \E v \in Viewers : OfferArrive(v, TRUE)
  \/ \E s \in Sessions : ConnChange(s, "failed")
  \/ Progress
  \/ Signal
  \/ MainWake
  \/ MainGatherDone
  \/ MainDone

SpecFail == InitFail /\ [][NextFail]_vars

\* The time since the last frame grows beyond three reconnect intervals (the
\* only thing the watchdog tests about it), as long as a restart may follow.
Stall ==
  /\ cam.player # None
  /\ cam.ready
  /\ cam.stall =< StallFactor
  /\ hist.restarts < MaxRestarts
  /\ cam' = [cam EXCEPT !.stall = StallFactor + 1]
  /\ UNCHANGED <<task, sess, peers, cleanup, connected, nice, hist, calls, app, wrap>>

\* The steps of Progress other than the hand-over of the source lock.
Steps ==
  \/ \E h \in Handlers : RemoteDescriptionDone(h)
  \/ \E h \in Handlers : FlushDone(h)
  \/ \E h \in Handlers : AnswerDone(h)
  \/ \E h \in Handlers : LocalDescriptionDone(h)
  \/ \E h \in Handlers : SettleDone(h)
  \/ \E c \in Cleaners : CleanerStart(c)
  \/ \E t \in Tasks : CleanupGranted(t)
  \/ \E t \in Tasks : CleanupCloseDone(t)
  \/ \E t \in Tasks : CleanupSleepDone(t)
  \/ \E s \in Sessions : GatherComplete(s)
  \/ \E s \in Sessions : GatherCallback(s)
  \/ \E s \in Sessions : ConnCallback(s)
  \/ \E w \in Watchdogs : WatchdogCancelled(w)
  \/ \E t \in Tasks : StopWatchdogDone(t)
  \/ \E t \in Tasks : StopDrainDone(t)
  \/ \E t \in Tasks : StopSettleDone(t)

\* Offers, connections that fail, and the watchdogs, which wake for ever, with
\* frames and stalls of the stream.
NextLocks ==
  \/ \E v \in Viewers : OfferArrive(v, TRUE)
  \/ \E s \in Sessions : ConnChange(s, "failed")
  \/ \E t \in Tasks : LockGranted(t)
  \/ Steps
  \/ \E w \in Watchdogs : WatchdogWake(w)
  \/ Frame
  \/ Stall

\* The event loop runs the task that was handed the source lock, and every
\* other task whose await is over, however often the watchdogs wake.
SpecLocks ==
  /\ InitFail
  /\ [][NextLocks]_vars
  /\ WF_vars(\E t \in Tasks : LockGranted(t))
  /\ WF_vars(Steps)

\* The publisher with a positive status interval.
InitStatus ==
  /\ cam = [SharedRTSPPlayer EXCEPT !.created = FALSE]
  /\ task = [t \in Tasks |-> IF t = Main THEN [NewTask EXCEPT !.pc = "main_sleep"]
                                         ELSE NewTask]
  /\ sess = [s \in Sessions |-> PeerContext]
  /\ peers = [v \in Viewers |-> 0]
  /\ cleanup = [lock |-> NoTask, q |-> <<>>]
  /\ connected = FALSE
  /\ nice = 0
  /\ hist = [pullers |-> 0, fails |-> 0, restarts |-> 0]
  /\ calls = <<>>
  /\ app = [NewApp EXCEPT !.interval = 1]
  /\ wrap = NewWrap

\* The first offer, arriving before the signal.
FirstOffer(v) ==
  /\ ~app.exit
  /\ \A h \in Handlers : task[h].pc = "none"
  /\ OfferArrive(v, TRUE)

\* The heartbeat and the shutdown sequence with one viewer's session.
NextStatus ==
  \/ MqttConnect
  \/ \E v \in Viewers : FirstOffer(v)
  \/ \E h \in Handlers : RemoteDescriptionDone(h)
  \/ \E h \in Handlers : FlushDone(h)
  \/ \E h \in Handlers : AnswerDone(h)
  \/ \E h \in Handlers : LocalDescriptionDone(h)
  \/ \E c \in Cleaners : CleanerStart(c)
  \/ \E t \in Tasks : CleanupGranted(t)
  \/ \E t \in Tasks : CleanupCloseDone(t)
  \/ \E t \in Tasks : CleanupSleepDone(t)
  \/ \E s \in Sessions : GatherComplete(s)
  \/ \E s \in Sessions : GatherCallback(s)
  \/ \E s \in Sessions : ConnCallback(s)
  \/ \E w \in Watchdogs : WatchdogCancelled(w)
  \/ \E t \in Tasks : StopWatchdogDone(t)
  \/ \E t \in Tasks : StopDrainDone(t)
  \/ \E t \in Tasks : StopSettleDone(t)
  \/ \E s \in Starters : StatusStartDone(s)
  \/ \E p \in Heartbeats : HeartbeatWake(p)
  \/ Signal
  \/ MainWake
  \/ MainGatherDone
  \/ MainDone

SpecStatus == InitStatus /\ [][NextStatus]_vars

\* The heartbeat with a broker connection that is lost and made again, until
\* run_app has returned.
NextBeat ==
  \/ MqttConnect
  \/ MqttDisconnect
  \/ \E s \in Starters : StatusStartDone(s)
  \/ \E p \in Heartbeats : HeartbeatWake(p)
  \/ Signal
  \/ MainWake
  \/ MainDone

SpecBeat == InitStatus /\ [][NextBeat]_vars

\* ------------------------------------------------- the ICE-server list
\* MQTTPublisher.__init__ is about to build the RTCConfiguration from any
\* configuration.
InitIce ==
  /\ cam = [SharedRTSPPlayer EXCEPT !.created = FALSE]
  /\ task = [t \in Tasks |-> NewTask]
  /\ sess = [s \in Sessions |-> PeerContext]
  /\ peers = [v \in Viewers |-> 0]
  /\ cleanup = [lock |-> NoTask, q |-> <<>>]
  /\ connected = FALSE
  /\ nice = 0
  /\ hist = [pullers |-> 0, fails |-> 0, restarts |-> 0]
  /\ calls = <<>>
  /\ \E c \in IceConfigs : app = [NewApp EXCEPT !.ice_cfg = c, !.built = FALSE]
  /\ wrap = NewWrap

\* "ice_servers = build_ice_servers(cfg["mqtt"])"
BuildIce ==
  /\ ~app.built
  /\ app' = [app EXCEPT !.built = TRUE, !.ice_servers = build_ice_servers(app.ice_cfg)]
  /\ UNCHANGED <<cam, task, sess, peers, cleanup, connected, nice, hist, calls, wrap>>

NextIce == BuildIce

SpecIce == InitIce /\ [][NextIce]_vars

\* ------------------------------------------------ the non-buffered wrapper
Others == <<cam, task, sess, peers, cleanup, connected, nice, hist, calls, app>>

\* get_track without relay: the wrapper is made and started.
InitWrap ==
  /\ cam = SharedRTSPPlayer
  /\ task = [t \in Tasks |-> NewTask]
  /\ sess = [s \in Sessions |-> PeerContext]
  /\ peers = [v \in Viewers |-> 0]
  /\ cleanup = [lock |-> NoTask, q |-> <<>>]
  /\ connected = FALSE
  /\ nice = 0
  /\ hist = [pullers |-> 0, fails |-> 0, restarts |-> 0]
  /\ calls = <<>>
  /\ app = NewApp
  /\ wrap = [NewWrap EXCEPT !.fetch = "recv"]

\* _fetch_frames: "frame = await self.source_track.recv()" returns a frame, which
\* replaces the one in the slot.
FetchFrame ==
  /\ wrap.fetch = "recv"
  /\ wrap.source = "live"
  /\ wrap.frames < MaxFrames
  /\ wrap' = [wrap EXCEPT !.frames = @ + 1, !.latest = wrap.frames + 1]
  /\ UNCHANGED Others

\* The upstream track fails or is stopped.
SourceEnds(how) ==
  /\ wrap.source = "live"
  /\ wrap' = [wrap EXCEPT !.source = how]
  /\ UNCHANGED Others

\* _fetch_frames: source_track.recv() raises (MediaStreamError or another
\* exception): break, and the finally block clears the slot.
FetchFails ==
  /\ wrap.fetch = "recv"
  /\ wrap.source # "live"
  /\ wrap' = [wrap EXCEPT !.fetch = "done", !.latest = None]
  /\ UNCHANGED Others

\* recv is called.
RecvCall(r) ==
  /\ wrap.reader[r].pc = "idle"
  /\ wrap' = TestSlot(wrap, r)
  /\ UNCHANGED Others

\* recv: sleep(0.01) is over, the loop condition is tested again.
RecvPoll(r) ==
  /\ wrap.reader[r].pc = "wait"
  /\ wrap' = TestSlot(wrap, r)
  /\ UNCHANGED Others

\* stop(): _stopping = True, the fetch task is cancelled, the slot cleared.
WrapStop ==
  /\ ~wrap.stopping
  /\ wrap' = [wrap EXCEPT !.stopping = TRUE, !.latest = None,
                          !.fetch = IF @ = "recv" THEN "done" ELSE @]
  /\ UNCHANGED Others

NextWrap ==
  \/ FetchFrame
  \/ \E how \in {"error", "ended"} : SourceEnds(how)
  \/ FetchFails
  \/ \E r \in Readers : RecvCall(r)
  \/ \E r \in Readers : RecvPoll(r)
  \/ WrapStop

SpecWrap == InitWrap /\ [][NextWrap]_vars

\* ------------------------------------------- get_track without relay
\* Several viewers in non-relay mode: every get_track(use_relay=False) makes
\* its own NonBufferedVideoTrack around the one track self.player.video.  In
\* this part wrap is [made, queue, track, since]: made counts the frames the
\* puller has decoded, queue is the frame queue of player.video (a frame put
\* on it is handed to one caller of its recv), track[k] is the wrapper of
\* viewer k and since[k] the value of made when that wrapper was started.
Wrappers == 1..NumWrappers

InitFan ==
  /\ cam = SharedRTSPPlayer
  /\ task = [t \in Tasks |-> NewTask]
  /\ sess = [s \in Sessions |-> PeerContext]
  /\ peers = [v \in Viewers |-> 0]
  /\ cleanup = [lock |-> NoTask, q |-> <<>>]
  /\ connected = FALSE
  /\ nice = 0
  /\ hist = [pullers |-> 0, fails |-> 0, restarts |-> 0]
  /\ calls = <<>>
  /\ app = NewApp
  /\ wrap = [made |-> 0, queue |-> <<>>,
             track |-> [k \in Wrappers |-> NewWrap],
             since |-> [k \in Wrappers |-> 0]]

\* get_track, the branch without relay: NonBufferedVideoTrack(self.player.video)
\* and start(), which creates the task of _fetch_frames.
FanGetTrack(k) ==
  /\ wrap.track[k].fetch = "none"
  /\ wrap' = [wrap EXCEPT !.track[k] = [NewWrap EXCEPT !.fetch = "recv"],
                          !.since[k] = wrap.made]
  /\ UNCHANGED Others

\* The puller decodes a frame and puts it on the queue of player.video.
PullerFrame ==
  /\ wrap.made < MaxPulled
  /\ wrap' = [wrap EXCEPT !.made = @ + 1, !.queue = Append(@, wrap.made + 1)]
  /\ UNCHANGED Others

\* _fetch_frames of wrapper k: "frame = await self.source_track.recv()" takes
\* the frame at the head of the queue; the frame replaces the one in the slot
\* of this wrapper.
FanFetch(k) ==
  /\ wrap.track[k].fetch = "recv"
  /\ wrap.queue # <<>>
  /\ wrap' = [wrap EXCEPT !.queue = Tail(@),
                          !.track[k].frames = @ + 1,
                          !.track[k].latest = Head(wrap.queue)]
  /\ UNCHANGED Others

\* stop() of wrapper k: _stopping = True, the fetch task is cancelled, the
\* slot cleared.
FanStop(k) ==
  /\ wrap.track[k].fetch = "recv"
  /\ wrap' = [wrap EXCEPT !.track[k].stopping = TRUE,
                          !.track[k].latest = None,
                          !.track[k].fetch = "done"]
  /\ UNCHANGED Others

NextFan ==
  \/ \E k \in Wrappers : FanGetTrack(k)
  \/ PullerFrame
  \/ \E k \in Wrappers : FanFetch(k)
  \/ \E k \in Wrappers : FanStop(k)

SpecFan == InitFan /\ [][NextFan]_vars

\* ------------------------------------------------ claims: shared source
StopLabels == {"stop_wd", "stop_drain", "stop_settle"}

Count(s, op) == Cardinality({i \in 1..Len(s) : s[i] = op})

AddRemoveOnly == \A i \in 1..Len(calls) : calls[i] \in {"add", "remove"}

AllIdle == \A u \in Callers : task[u].pc = "idle"

\* The count a sequence of calls leaves, each call applied in turn from zero.
RECURSIVE SaturatingCount(_)
SaturatingCount(s) ==
  IF s = <<>> THEN 0
  ELSE LET n == SaturatingCount(SubSeq(s, 1, Len(s) - 1))
           op == s[Len(s)]
       IN CASE op = "add" -> n + 1
            [] op = "remove" -> IF n = 0 THEN 0 ELSE n - 1
            [] op = "shutdown" -> 0
            [] OTHER -> n

\* C3 as stated: after any sequence of add_client and remove_client calls (no
\* puller creation failing) active_clients = max(0, #add_client - #remove_client).
C3_ClampedDifference ==
  (AddRemoveOnly /\ hist.fails = 0)
    => cam.active_clients = Max(0, Count(calls, "add") - Count(calls, "remove"))

\* C3 amended: after any sequence of add_client and remove_client calls (no
\* puller creation failing) active_clients is the count obtained from zero by
\* adding one per add_client and subtracting one per remove_client, a
\* remove_client at zero leaving it at zero.
C3_SaturatingCount ==
  (AddRemoveOnly /\ hist.fails = 0) => cam.active_clients = SaturatingCount(calls)

C3_Witness ==
  /\ calls = <<"remove", "add", "add", "remove">>
  /\ hist.fails = 0
  /\ cam.active_clients = 1

\* C4: whenever no puller stop is in progress, the puller is non-null exactly
\* when active_clients > 0 (puller creation failures included).
C4_PullerIffClients ==
  (\A t \in Tasks : task[t].pc \notin StopLabels)
    => ((cam.player # None) <=> (cam.active_clients > 0))

\* C5: once N >= 1 add_client calls (and nothing else, every creation
\* succeeding, no stall restart) have all returned, active_clients = N, a
\* puller exists and exactly one puller was ever created.
C5_ConcurrentAdds ==
  (/\ calls # <<>>
   /\ \A i \in 1..Len(calls) : calls[i] = "add"
   /\ AllIdle
   /\ hist.fails = 0
   /\ hist.restarts = 0)
    => (/\ cam.active_clients = Len(calls)
        /\ cam.player # None
        /\ hist.pullers = 1)

C5_Witness ==
  /\ Len(calls) >= 3
  /\ \A i \in 1..Len(calls) : calls[i] = "add"
  /\ AllIdle
  /\ hist.fails = 0
  /\ hist.restarts = 0
  /\ cam.stall > StallFactor

\* C6: an add_client whose puller creation fails raises to its caller and
\* leaves active_clients at the value it had before the call.
C6_FailedAddKeepsCount ==
  [][(calls' = Append(calls, "add") /\ hist'.fails > hist.fails)
       => (/\ \E u \in Callers : task'[u].err
           /\ cam'.active_clients = cam.active_clients)]_vars

\* C7: from the initial state, add_client then remove_client leaves
\* active_clients 0, no puller, no watchdog task running and ready clear.
C7_RoundTrip ==
  (calls = <<"add", "remove">> /\ AllIdle)
    => (/\ cam.active_clients = 0
        /\ cam.player = None
        /\ cam.watchdog_task = NoTask
        /\ \A w \in Watchdogs : task[w].pc = "none"
        /\ ~cam.ready)

\* C8: a remove_client that finds active_clients at 0 returns at once without
\* an error and leaves active_clients, the puller, the watchdog and ready as
\* they were.
C8_RemoveAtZeroNoOp ==
  [][(calls' = Append(calls, "remove") /\ cam.active_clients = 0)
       => (/\ cam'.active_clients = 0
           /\ cam'.player = cam.player
           /\ cam'.watchdog_task = cam.watchdog_task
           /\ cam'.ready = cam.ready
           /\ \A t \in Tasks : task'[t].pc \notin StopLabels \/ task[t].pc \in StopLabels
           /\ \A u \in Callers : task'[u].err => task[u].err)]_vars

C8_Witness ==
  /\ Len(calls) >= 2
  /\ calls[1] = "add"
  /\ calls[Len(calls)] = "remove"
  /\ Count(calls, "remove") > Count(calls, "add")
  /\ AllIdle

\* ----------------------------------------------------- claims: sessions
HandlersDone == \A h \in Handlers : task[h].pc = "done"

Live == {s \in Sessions : sess[s].conn \notin {"none", "closed"}}

\* C1: once the handlers of two offers of one viewer have both finished there
\* is exactly one live (non-closed) session of the viewer and the shared
\* source's active_clients is at most 1.
C1_OneLiveSession ==
  (HandlersDone /\ hist.fails = 0) =>
     /\ Cardinality(Live) = 1
     /\ cam.active_clients <= 1

\* A task is inside _cleanup_peer for a session of viewer v.
Cleaning(v) ==
  \E t \in Tasks : task[t].sid # 0 /\ sess[task[t].sid].viewer = v

\* A handler of viewer v has made its peer connection and has not yet got
\* its track: it is in setRemoteDescription, the flush, add_client or get_track.
Constructing(v) ==
  \E h \in Handlers :
     /\ sess[h[2]].viewer = v
     /\ task[h].pc \in {"srd", "flush", "lock_wait"}

\* C2: for no viewer are a teardown and a construction of a session in
\* progress at the same time.
C2_NoInterleave == \A v \in Viewers : ~(Cleaning(v) /\ Constructing(v))

\* The candidates of sequence a that are in sequence b, in a's order.
Restrict(a, b) == SelectSeq(a, LAMBDA c : \E i \in 1..Len(b) : b[i] = c)

\* C9: once the queue of a session has been flushed, every candidate received
\* before setRemoteDescription resolved has been applied exactly once, in
\* arrival order; none is dropped.
C9_EarlyCandidatesApplied ==
  \A s \in Sessions : sess[s].flushed => Restrict(sess[s].applied, sess[s].early) = sess[s].early

Sentinels(s) == Count(sess[s].pub, "sentinel")

\* C10 as stated: a session whose gathering is complete, its callbacks run,
\* has published exactly one end-of-candidates sentinel.
C10_ExactlyOneSentinel ==
  \A s \in Sessions :
     (sess[s].gather = "complete" /\ sess[s].gcb = 0) => Sentinels(s) = 1

\* C10, amended: a session publishes at most one sentinel; the one attempt is
\* made at the transition of gathering to complete and only then, and it is
\* dropped when the broker is not connected.
C10_OneSentinelAttempt ==
  \A s \in Sessions :
     /\ Sentinels(s) + sess[s].skipped <= 1
     /\ (sess[s].gather = "complete" /\ sess[s].gcb = 0) =>
           Sentinels(s) + sess[s].skipped = 1
     /\ Sentinels(s) + sess[s].skipped = 1 => sess[s].gather = "complete"

C10_Witness ==
  /\ HandlersDone
  /\ \E s \in Sessions : Sentinels(s) = 1 /\ Len(sess[s].pub) = 2
  /\ \E s \in Sessions : sess[s].skipped = 1

\* C11: a session that has published its end-of-candidates sentinel (the only
\* message the code publishes to the ice topic) has published its SDP answer
\* before it.
C11_AnswerBeforeIce ==
  \A s \in Sessions :
     \A i \in 1..Len(sess[s].pub) :
        sess[s].pub[i] = "sentinel" => \E j \in 1..(i - 1) : sess[s].pub[j] = "answer"

\* C14: a connection-state callback that reaches failed or closed while its
\* viewer has no session registered starts no teardown, calls no
\* remove_client and leaves the registry and the shared source unchanged.
C14_UnregisteredCleanupNoOp ==
  [][\A s \in Sessions :
       (/\ sess'[s].ccb < sess[s].ccb
        /\ sess[s].conn \in {"failed", "closed"}
        /\ peers[sess[s].viewer] = 0)
         => (peers' = peers /\ task' = task /\ cam' = cam /\ cleanup' = cleanup)]_vars

C14_Witness ==
  \E s \in Sessions :
     /\ sess[s].conn = "closed"
     /\ sess[s].ccb = 0
     /\ peers[sess[s].viewer] = 0
     /\ task[<<"c", s>>].pc = "none"
     /\ task[<<"h", s>>].pc = "done"

\* Only add_client and get_track have been called on the shared source.
AddAndTrackOnly == \A i \in 1..Len(calls) : calls[i] \in {"add", "get_track"}

\* No watchdog is in the middle of a restart.
NoRestartRunning == \A w \in Watchdogs : task[w].op # "wd"

\* C15: once the watchdog has detected a stall (no frame for more than three
\* reconnect intervals, clients present) and its restart is over, the puller
\* has been destroyed and recreated and active_clients is what it was.
C15_StallRestart ==
  (hist.restarts >= 1 /\ AddAndTrackOnly /\ NoRestartRunning)
    => (/\ cam.player # None
        /\ hist.pullers >= 2
        /\ cam.active_clients = Count(calls, "add"))

\* C16: after a watchdog restart the track a client got from get_track is the
\* one fed by the current puller.
C16_TrackFollowsRestart ==
  (hist.restarts >= 1 /\ hist.fails = 0 /\ AddAndTrackOnly /\ NoRestartRunning)
    => \A u \in Callers :
          (task[u].pc = "idle" /\ task[u].track # None) => task[u].track = cam.player

\* The teardown of session s has run to its end.
TornDown(s) ==
  /\ sess[s].torn
  /\ sess[s].conn = "closed"
  /\ \A t \in Tasks : task[t].sid # s

\* C12: a registered session whose connection has become failed or closed is
\* removed from the registry and a teardown of it eventually runs to its end,
\* remove_client included.
C12_FailedIsCleanedUp ==
  \A s \in Sessions :
     (sess[s].conn \in {"failed", "closed"} /\ \E v \in Viewers : peers[v] = s)
       ~> ((\A v \in Viewers : peers[v] # s) /\ TornDown(s))

\* The callback has acted on failed: the session is out of the registry and
\* the task made for it is in _cleanup_peer, about to close the connection.
C12_Witness ==
  \E s \in Sessions :
     /\ sess[s].conn = "failed"
     /\ sess[s].torn
     /\ task[<<"c", s>>].pc = "cl_close"
     /\ task[<<"c", s>>].sid = s
     /\ \A v \in Viewers : peers[v] # s

\* ------------------------------------------- claims: status and shutdown
\* C13: a teardown that runs on a session already torn down changes nothing:
\* no step of it changes active_clients or the puller.
C13_SecondTeardownNoOp ==
  [][\A t \in Tasks :
       (task[t].again /\ task'[t].pc # task[t].pc)
         => (cam'.active_clients = cam.active_clients /\ cam'.player = cam.player)]_vars

HasStatus(what) == \E i \in 1..Len(app.status) : app.status[i].status = what

\* C17: when the signal came with a session registered and the broker
\* connected, then once run_app has returned the shutdown status has been
\* published, every peer connection is closed, the registry is empty and no
\* cleanup task is in flight.
C17_ShutdownComplete ==
  (app.down /\ app.sig_live /\ app.sig_conn)
    => /\ HasStatus("shutdown")
       /\ \A s \in Sessions : sess[s].conn \in {"none", "closed"}
       /\ \A v \in Viewers : peers[v] = 0
       /\ \A c \in Cleaners : task[c].pc = "none"

\* C18: the shutdown status is the last status message (so there is at most
\* one), and there is one once run_app has returned if the broker was
\* connected when the signal came.
C18_ShutdownStatusFinal ==
  /\ \A i \in 1..Len(app.status) :
        app.status[i].status = "shutdown" => i = Len(app.status)
  /\ (app.down /\ app.sig_conn) => HasStatus("shutdown")

\* C19: every status message published has the keys device_id, device_type,
\* ts and status.
C19_StatusKeys ==
  \A i \in 1..Len(app.status) :
     {"device_id", "device_type", "ts", "status"} \subseteq app.status[i].keys

\* C20: with a status interval of zero no status message is ever published.
C20_NoStatusWhenDisabled == app.interval = 0 => app.status = <<>>

\* --------------------------------------------------- claims: ICE servers
\* C21: the list built is the one default STUN server when mqtt.ice_servers
\* is absent or an empty list, and otherwise the configured servers that have
\* a urls entry.
C21_IceServers ==
  app.built =>
    app.ice_servers =
      IF app.ice_cfg.kind = "absent" \/ (app.ice_cfg.kind = "list" /\ app.ice_cfg.list = <<>>)
      THEN <<DefaultServer>>
      ELSE ConfiguredServers(app.ice_cfg.list)

\* ------------------------------------------- claims: non-buffered wrapper
\* C22: a recv that tests the slot after the fetch task has ended on an
\* upstream error or stop ends with a track-ended failure: it neither waits
\* nor returns a frame nor fails in another way.
C22_RecvFailsWhenUpstreamEnds ==
  \A r \in Readers : wrap.reader[r].late => wrap.reader[r].out = "ended"

\* ------------------------------------------------ claims: client accounting
\* The sessions that hold a count: add_client has completed for them and
\* remove_client has not been called.
Counted == {s \in Sessions : sess[s].counted /\ sess[s].removes = 0}

NoCountCall == \A t \in Tasks : task[t].op \notin {"add", "remove"}

\* C23: remove_client is called at most once for a session, and only for a
\* session that was counted; whenever no add_client or remove_client is under
\* way, active_clients is the number of sessions that hold a count.
C23_CountMatchesSessions ==
  /\ \A s \in Sessions : sess[s].removes <= 1 /\ (sess[s].removes = 1 => sess[s].counted)
  /\ NoCountCall => cam.active_clients = Cardinality(Counted)

\* C24: a connection-state callback of session s changes the registry only by
\* removing s itself: it never removes another session of the same viewer.
C24_CallbackRemovesOwnSession ==
  [][\A s \in Sessions :
       ConnCallback(s) => \A v \in Viewers : peers'[v] # peers[v] => peers[v] = s]_vars

\* ------------------------------------------------------ claims: teardown
\* The order of _cleanup_peer's steps.
TeardownOrder == <<"track", "transceivers", "close", "clear", "remove">>

Rank(x) == CHOOSE i \in 1..Len(TeardownOrder) : TeardownOrder[i] = x

Taken(t) == {task[t].steps[i] : i \in 1..Len(task[t].steps)}

\* C25: the steps a teardown has taken are in the order track stop,
\* transceivers, close, clear pending ICE, remove_client; the transceivers are
\* stopped before the close, and remove_client is called only after the close
\* has returned, with the pending-ICE queue cleared.
C25_TeardownOrder ==
  \A t \in Tasks :
    LET st == task[t].steps
    IN /\ \A i, j \in 1..Len(st) : i < j => Rank(st[i]) < Rank(st[j])
       /\ "close" \in Taken(t) => "transceivers" \in Taken(t)
       /\ "clear" \in Taken(t) => "close" \in Taken(t)
       /\ "remove" \in Taken(t) => "clear" \in Taken(t)
       /\ (task[t].sid # 0 /\ task[t].op = "remove") => "close" \in Taken(t)

\* A teardown of a session that held a track has taken all five steps.
C25_Witness ==
  \E t \in Tasks : task[t].sid # 0 /\ task[t].steps = TeardownOrder

\* C26: when run_app's shutdown has destroyed the puller (camera.shutdown has
\* cleared the player in _stop_locked), the peer connection of every session
\* in the registry has been closed.
C26_PeersClosedBeforePuller ==
  (task[Main].op = "shutdown" /\ task[Main].pc \in {"stop_drain", "stop_settle"})
    => \A v \in Viewers : peers[v] # 0 => Closed(World, peers[v])

\* Session s can be found: it is in the registry, or a teardown holds it (the
\* ctx argument of a _cleanup_peer call that is scheduled or under way).
Reachable(s) ==
  \/ \E v \in Viewers : peers[v] = s
  \/ \E t \in Tasks : task[t].sid = s

\* C27: a session that is neither registered nor being torn down has no open
\* peer connection, holds no track and holds no count of the shared source.
C27_NothingUnreachable ==
  \A s \in Sessions :
    ~Reachable(s) =>
      /\ sess[s].conn \in {"none", "closed"}
      /\ sess[s].relay_track = None
      /\ s \notin Counted

\* C28: no task holds the cleanup lock and the shared source's lock at the
\* same time.
C28_LocksNotNested ==
  \A t \in Tasks : ~(cleanup.lock = t /\ cam.lock = t)

\* The tasks inside the body of _cleanup_peer: they have taken its first steps
\* and have not left it.
InTeardown == {t \in Tasks : task[t].steps # <<>>}

\* C29: at most one task is inside the body of _cleanup_peer.
C29_OneTeardown == Cardinality(InTeardown) <= 1

\* A teardown is under way while another one waits to enter.
C29_Witness ==
  /\ InTeardown # {}
  /\ \E t \in Tasks : task[t].pc = "cl_wait" /\ task[t].sid # 0

\* ------------------------------------------------------- claims: watchdog
\* The watchdog tasks that exist.
LiveWatchdogs == {w \in Watchdogs : task[w].pc # "none"}

\* C30: at most one watchdog task exists, and whenever no call of the shared
\* source is under way and active_clients is 0 no watchdog task exists.
C30_OneWatchdog ==
  /\ Cardinality(LiveWatchdogs) <= 1
  /\ (AllIdle /\ cam.active_clients = 0) => LiveWatchdogs = {}

\* C31: once the watchdog has restarted the puller, the shared source is never
\* at rest (no call under way, the lock free) with clients counted, no puller
\* and no watchdog task left to retry the creation.
C31_WatchdogRetries ==
  (hist.restarts > 0 /\ AllIdle /\ cam.lock = NoTask
     /\ cam.active_clients > 0 /\ cam.player = None)
    => LiveWatchdogs # {}

\* The watchdog w is between the start of _stop_locked and the end of
\* _start_locked of a restart.
Restarting(w) == task[w].op = "wd"

PublicOps == {"add", "remove", "get_track", "shutdown"}

\* C32: a watchdog's check starts a restart only when active_clients > 0, the
\* puller exists, ready is set and more than StallFactor intervals have passed
\* without a frame; a check that starts no restart leaves the shared source
\* as it was; during the restart the watchdog holds the lock and every public
\* call of the shared source is waiting for it.
C32_RestartOnlyOnStall ==
  /\ [][\A w \in Watchdogs :
          /\ (~Restarting(w) /\ Restarting(w)')
               => (/\ cam.active_clients > 0
                   /\ cam.player # None
                   /\ cam.ready
                   /\ cam.stall > StallFactor)
          /\ (task[w].pc = "lock_wait" /\ task'[w].pc = "wd_sleep")
               => (/\ cam' = [cam EXCEPT !.lock = cam'.lock, !.lockq = cam'.lockq]
                   /\ hist' = hist)]_vars
  /\ [](\A w \in Watchdogs :
          Restarting(w) =>
            /\ cam.lock = w
            /\ \A u \in Tasks \ {w} :
                 task[u].op \in PublicOps => task[u].pc = "lock_wait")

\* A restart is under way while a public call waits for the lock.
C32_Witness ==
  \E w \in Watchdogs :
    /\ Restarting(w)
    /\ cam.player = None
    /\ \E u \in Callers : task[u].op \in PublicOps /\ task[u].pc = "lock_wait"

\* ------------------------------------------------------- claims: shutdown
ShutdownOrder == <<"cancel", "cleanup", "await", "close">>

\* C33: the steps the shutdown sequence has taken are, in this order: cancel
\* all outstanding tasks, clean up every registered session, await the
\* cleanup tasks in flight, close the transport.
C33_ShutdownOrder ==
  /\ Len(app.order) <= Len(ShutdownOrder)
  /\ \A i \in 1..Len(app.order) : app.order[i] = ShutdownOrder[i]

RunAppOrder == <<"cleanup", "await", "close", "cancel">>

\* C33 (amended): the steps the shutdown sequence has taken are, in this
\* order: clean up every registered session, await the cleanup tasks in
\* flight, close the transport, cancel all outstanding tasks; once run_app
\* has returned all four have been taken.
C33_ShutdownOrderAmended ==
  /\ Len(app.order) <= Len(RunAppOrder)
  /\ \A i \in 1..Len(app.order) : app.order[i] = RunAppOrder[i]
  /\ app.down => app.order = RunAppOrder

\* run_app has returned after a signal that found a session registered.
C33_Witness == app.down /\ app.sig_live /\ app.order = RunAppOrder

\* C34: no cleanup task made by a connection-state callback is cancelled
\* before it is done: when run_app has returned every such task has run to
\* its end.
C34_CleanupTasksComplete == app.cut = {}

\* ------------------------------------------------ claims: session fields
\* The handler of session s is past its track setup and no teardown of s is
\* scheduled or under way.
AtRest(s) ==
  /\ task[<<"h", s>>].pc \in {"answer", "sld", "done"}
  /\ \A t \in Tasks : task[t].sid # s

\* C35: for a session whose track setup is over and that is not being torn
\* down, relay_track is set exactly if add_client has been called for the
\* session and remove_client has not.
C35_TrackIffCounted ==
  \A s \in Sessions :
    AtRest(s) => ((sess[s].relay_track # None) <=> (sess[s].added /\ sess[s].removes = 0))

C37_ReadyOnlyFromLivePuller ==
  cam.ready => (cam.player # None /\ cam.fed = cam.player)


\* C38: without relay and with two or more viewers the one pulled stream is
\* fanned out to all of them: once every frame the puller has produced has been
\* taken from the queue of player.video, the slot of every running wrapper that
\* was started before the newest frame holds that newest frame, so a frame
\* taken by one viewer's wrapper is not withheld from the others.
C38_FanOutToAll ==
  wrap.queue = <<>> =>
    \A k \in Wrappers :
      (wrap.track[k].fetch = "recv" /\ wrap.since[k] < wrap.made)
        => wrap.track[k].latest = wrap.made


\* Tasks waiting for the source mutex and for the cleanup mutex.
LockWaiters == {t \in Tasks : task[t].pc = "lock_wait"}
CleanupWaiters == {t \in Tasks : task[t].pc = "cl_wait"}

\* A waiter of the source mutex, of the cleanup mutex, stops waiting.
LockServed == \E t \in LockWaiters : task'[t].pc # "lock_wait"
CleanupServed == \E t \in CleanupWaiters : task'[t].pc # "cl_wait"

Periodic == {p \in Heartbeats : task[p].pc # "none"}

\* C40: at most one periodic status task runs at any time, also when the
\* transport connects twice within the initial delay of _start_status_task.
C40_OnePeriodicTask == Cardinality(Periodic) =< 1

====
